---------------------------- MODULE Spec2Model ----------------------------
(***************************************************************************)
(* State-machine model of the USB_AUDIO_I2S demo (ChibiOS):                *)
(*   - the TIM2 frame-boundary interrupt that measures the sample clock    *)
(*     against the USB start-of-frame and publishes the 3-byte feedback,   *)
(*   - the isochronous endpoint callbacks audio_feedback / audio_received, *)
(*   - start_playback / stop_playback, audio_requests_hook and usb_event,  *)
(*   - the feature-unit control requests (audio_volume_control and the     *)
(*     completion callbacks notify_mute / notify_volume),                  *)
(*   - the main() event loop that starts and stops I2S, the SOF capture    *)
(*     and the DAC.                                                        *)
(* Interrupt handlers run to completion with respect to the main thread;   *)
(* the main thread is cut into one step per access to shared state.  The   *)
(* status LEDs (GPIO) are left out: nothing reads them.                    *)
(* The module holds several specifications over the same variables: Spec   *)
(* (the stream and the main thread), SpecData (the stream with the data    *)
(* packets), SpecFrame (the USB interrupt frame by frame), SpecSof (the    *)
(* capture of the sample clock), SpecCtl and SpecVol (the class requests). *)
(* 32-bit unsigned values are pairs of 16-bit halves [hi, lo]; every       *)
(* operation on them is taken modulo 2^32.                                 *)
(***************************************************************************)
EXTENDS Integers, Sequences, FiniteSets, TLC

(***************************************************************************)
(* Program constants (audio.h)                                             *)
(***************************************************************************)
UAC_REQ_SET_CUR == 1
UAC_REQ_SET_MIN == 2
UAC_REQ_SET_MAX == 3
UAC_REQ_SET_RES == 4
UAC_REQ_GET_CUR == 129
UAC_REQ_GET_MIN == 130
UAC_REQ_GET_MAX == 131
UAC_REQ_GET_RES == 132

UAC_FU_MUTE_CONTROL == 1
UAC_FU_VOLUME_CONTROL == 2

AUDIO_SAMPLING_FREQUENCY == 48000
AUDIO_RESOLUTION == 16
AUDIO_CHANNELS == 2
AUDIO_SAMPLES_PER_FRAME == AUDIO_SAMPLING_FREQUENCY \div 1000
AUDIO_PACKET_SIZE == (AUDIO_SAMPLES_PER_FRAME * AUDIO_CHANNELS * AUDIO_RESOLUTION) \div 8
AUDIO_MAX_PACKET_SIZE == AUDIO_PACKET_SIZE + 4
AUDIO_BUFFER_SIZE == AUDIO_SAMPLES_PER_FRAME * 2 * 2
AUDIO_QUEUE_SIZE == AUDIO_MAX_PACKET_SIZE * 4

AUDIO_CONTROL_INTERFACE == 0
AUDIO_STREAMING_INTERFACE == 1
AUDIO_FUNCTION_UNIT_ID == 2

\* bRequest of the standard SET_INTERFACE request.
USB_REQ_SET_INTERFACE == 11

\* Event flags broadcast on audio.audio_events (audio.h, EVENT_MASK(n)).
AUDIO_EVENT_PLAYBACK == "PLAYBACK"
AUDIO_EVENT_MUTE == "MUTE"
AUDIO_EVENT_VOLUME == "VOLUME"
AUDIO_EVENT_USB_STATE == "USB_STATE"

\* The value of sof_delta_count at which the feedback is published.
SOF_LAST_WINDOW == 31
\* sizeof(sof_feedback_data)
SOF_FEEDBACK_LEN == 3
\* sizeof(control_data)
CONTROL_DATA_LEN == 8
\* The "all channels" selector.
ALL_CHANNELS == 255

(***************************************************************************)
(* 32-bit unsigned arithmetic on [hi, lo] pairs of 16-bit halves           *)
(***************************************************************************)
W16 == 256 * 256

U32(h, l) == [hi |-> h, lo |-> l]

UINT32_MAX == U32(W16 - 1, W16 - 1)

Zero32 == U32(0, 0)

\* a + b on uint32_t
Add32(a, b) ==
  LET lo == a.lo + b.lo
      hi == a.hi + b.hi + (lo \div W16)
  IN U32(hi % W16, lo % W16)

\* a - b on uint32_t
Sub32(a, b) ==
  LET borrow == IF a.lo < b.lo THEN 1 ELSE 0
      lo == (a.lo + W16) - b.lo
      hi == ((a.hi + W16) - b.hi) - borrow
  IN U32(hi % W16, lo % W16)

\* a < b on uint32_t
Lt32(a, b) == a.hi < b.hi \/ (a.hi = b.hi /\ a.lo < b.lo)

(***************************************************************************)
(* Bounds of the model                                                     *)
(***************************************************************************)
\* Playback transitions (start_playback / stop_playback that change
\* audio.playback) explored in one behaviour.
MaxTransitions == 3
\* Feedback samples published in one behaviour of the capture specification.
MaxPublished == 1
\* Class requests received in one behaviour of the control specification.
MaxRequests == 2

(***************************************************************************)
(* State                                                                   *)
(***************************************************************************)
VARIABLES
  \* audio_state_t audio
  playback,             \* audio.playback
  sof_feedback_valid,   \* audio.sof_feedback_valid
  mute,                 \* audio.mute[0..1], here <<mute[0], mute[1]>>
  volume,               \* audio.volume[0..1], signed 16-bit values
  listener_flags,       \* flags pending on the listener of audio.audio_events
  ev_pending,           \* the main thread's event bit AUDIO_EVENT is pending
  iq_count,             \* bytes held by audio.audio_queue
  \* frame-rate feedback
  sof_last_counter,
  sof_delta,
  sof_first,
  sof_delta_count,
  sof_feedback_data,    \* <<byte0, byte1, byte2>>
  tim2,                 \* TIM2: [nvic, cen, tie]
  \* endpoint 1 and endpoint 0
  ep_rx,                \* OUT direction: [armed, size, got]
  ep_tx,                \* IN direction: [armed, len]
  control_data,         \* control_data[0..7], here a sequence of 8 bytes
  control_channel,
  ep0,                  \* transfer staged by usbSetupTransfer: [staged, buf, len, cb]
  hook_ret,             \* what audio_requests_hook returned last
  \* main thread and the hardware it drives
  main_pc,
  evt,                  \* the local evt of main()
  i2s_active,           \* I2S bus started and DMA exchange running
  dac,                  \* external DAC: [on, mute, volume]
  \* the pump thread, the I2S double buffer and its DMA
  pump,                 \* audio.pump: "NULL" or "Thread1"
  pump_pc,              \* where Thread1 is in its loop
  qs,                   \* the local qs of Thread1
  bufferp,              \* offset in dac_buffer bufferp points at; -1 is NULL
  buffern,
  rd,                   \* arguments of the chIQReadTimeout under way: [bp, n]
  dac_buffer,           \* per half, the bytes of the stream it holds: [from, len]
  dma_off,              \* offset in dac_buffer of the half DMA transmits
  iq_rd,                \* bytes read from audio.audio_queue so far
  \* history variables (not program state)
  reset_stop,           \* the USB handler that ran last was usb_event with
                        \* USB_EVENT_RESET, and it found playback true
  n_playback_events,    \* broadcasts of AUDIO_EVENT_PLAYBACK so far
  n_playback_changes,   \* changes of audio.playback so far
  fresh,                \* a sample was published since the last start_playback
  frame_fb,             \* playback as audio_feedback saw it in this frame
  frame_rx,             \* playback as audio_received saw it in this frame
  win_sum,              \* sum of the forward distances of the current window
  pub_sum,              \* win_sum of the window published last
  n_published,          \* samples published so far
  n_requests,           \* class requests received so far
  last_ctl,             \* what the last class request asked for
  vol_written,          \* the volume pairs left by completed volume transfers
  faults,               \* accesses outside an array that have happened
  wakeup_posted,        \* i2s_callback ran and no pass of the pump began since
  woke_for,             \* bufferp as set by the i2s_callback that resumed the pump
  underrun              \* "skipped": the last pass copied nothing; "fed": a
                        \* nominal packet was queued since, before the pump
                        \* woke again; "no": the last pass copied

progVars == <<playback, sof_feedback_valid, mute, volume, listener_flags,
              ev_pending, iq_count, sof_last_counter, sof_delta, sof_first,
              sof_delta_count, sof_feedback_data, tim2, ep_rx, ep_tx,
              control_data, control_channel, ep0, hook_ret,
              main_pc, evt, i2s_active, dac, pump, pump_pc, qs, bufferp,
              buffern, rd, dac_buffer, dma_off, iq_rd,
              n_playback_events, faults, wakeup_posted, woke_for, underrun>>

histVars == <<reset_stop, n_playback_changes, fresh, frame_fb, frame_rx,
              win_sum, pub_sum, n_published, n_requests, last_ctl,
              vol_written>>

vars == <<progVars, histVars>>

\* The program state as one record, on which the C functions are modelled
\* as operators from state to state.
State ==
  [playback |-> playback, sof_feedback_valid |-> sof_feedback_valid,
   mute |-> mute, volume |-> volume, listener_flags |-> listener_flags,
   ev_pending |-> ev_pending, iq_count |-> iq_count,
   sof_last_counter |-> sof_last_counter, sof_delta |-> sof_delta,
   sof_first |-> sof_first, sof_delta_count |-> sof_delta_count,
   sof_feedback_data |-> sof_feedback_data, tim2 |-> tim2,
   ep_rx |-> ep_rx, ep_tx |-> ep_tx, control_data |-> control_data,
   control_channel |-> control_channel, ep0 |-> ep0, hook_ret |-> hook_ret,
   main_pc |-> main_pc, evt |-> evt,
   i2s_active |-> i2s_active, dac |-> dac,
   pump |-> pump, pump_pc |-> pump_pc, qs |-> qs, bufferp |-> bufferp,
   buffern |-> buffern, rd |-> rd, dac_buffer |-> dac_buffer,
   dma_off |-> dma_off, iq_rd |-> iq_rd,
   n_playback_events |-> n_playback_events, faults |-> faults,
   wakeup_posted |-> wakeup_posted, woke_for |-> woke_for,
   underrun |-> underrun]

Commit(t) ==
  /\ playback' = t.playback
  /\ sof_feedback_valid' = t.sof_feedback_valid
  /\ mute' = t.mute
  /\ volume' = t.volume
  /\ listener_flags' = t.listener_flags
  /\ ev_pending' = t.ev_pending
  /\ iq_count' = t.iq_count
  /\ sof_last_counter' = t.sof_last_counter
  /\ sof_delta' = t.sof_delta
  /\ sof_first' = t.sof_first
  /\ sof_delta_count' = t.sof_delta_count
  /\ sof_feedback_data' = t.sof_feedback_data
  /\ tim2' = t.tim2
  /\ ep_rx' = t.ep_rx
  /\ ep_tx' = t.ep_tx
  /\ control_data' = t.control_data
  /\ control_channel' = t.control_channel
  /\ ep0' = t.ep0
  /\ hook_ret' = t.hook_ret
  /\ main_pc' = t.main_pc
  /\ evt' = t.evt
  /\ i2s_active' = t.i2s_active
  /\ dac' = t.dac
  /\ pump' = t.pump
  /\ pump_pc' = t.pump_pc
  /\ qs' = t.qs
  /\ bufferp' = t.bufferp
  /\ buffern' = t.buffern
  /\ rd' = t.rd
  /\ dac_buffer' = t.dac_buffer
  /\ dma_off' = t.dma_off
  /\ iq_rd' = t.iq_rd
  /\ n_playback_events' = t.n_playback_events
  /\ faults' = t.faults
  /\ wakeup_posted' = t.wakeup_posted
  /\ woke_for' = t.woke_for
  /\ underrun' = t.underrun

\* audioObjectInit, the static initialisers and the state of main() when it
\* enters its event loop.
InitState ==
  [playback |-> FALSE, sof_feedback_valid |-> FALSE,
   mute |-> <<FALSE, FALSE>>, volume |-> <<0, 0>>, listener_flags |-> {},
   ev_pending |-> FALSE, iq_count |-> 0,
   sof_last_counter |-> Zero32, sof_delta |-> Zero32,
   sof_first |-> TRUE, sof_delta_count |-> 0,
   sof_feedback_data |-> <<0, 0, 0>>,
   tim2 |-> [nvic |-> FALSE, cen |-> FALSE, tie |-> FALSE],
   ep_rx |-> [armed |-> FALSE, size |-> 0, got |-> FALSE],
   ep_tx |-> [armed |-> FALSE, len |-> 0],
   control_data |-> [i \in 1..CONTROL_DATA_LEN |-> 0],
   control_channel |-> 0,
   ep0 |-> [staged |-> FALSE, out |-> FALSE, buf |-> "NULL", len |-> 0,
            cb |-> "NULL"],
   hook_ret |-> FALSE,
   main_pc |-> "wait", evt |-> {},
   i2s_active |-> FALSE,
   dac |-> [on |-> FALSE, mute |-> <<FALSE, FALSE>>, volume |-> <<0, 0>>],
   pump |-> "NULL", pump_pc |-> "lock", qs |-> 0,
   bufferp |-> -1, buffern |-> 0, rd |-> [bp |-> -1, n |-> 0],
   dac_buffer |-> <<[from |-> 0, len |-> 0], [from |-> 0, len |-> 0]>>,
   dma_off |-> 0, iq_rd |-> 0,
   n_playback_events |-> 0, faults |-> {},
   wakeup_posted |-> FALSE, woke_for |-> -1, underrun |-> "no"]

\* The program is in state s.
Is(s) ==
  /\ playback = s.playback
  /\ sof_feedback_valid = s.sof_feedback_valid
  /\ mute = s.mute
  /\ volume = s.volume
  /\ listener_flags = s.listener_flags
  /\ ev_pending = s.ev_pending
  /\ iq_count = s.iq_count
  /\ sof_last_counter = s.sof_last_counter
  /\ sof_delta = s.sof_delta
  /\ sof_first = s.sof_first
  /\ sof_delta_count = s.sof_delta_count
  /\ sof_feedback_data = s.sof_feedback_data
  /\ tim2 = s.tim2
  /\ ep_rx = s.ep_rx
  /\ ep_tx = s.ep_tx
  /\ control_data = s.control_data
  /\ control_channel = s.control_channel
  /\ ep0 = s.ep0
  /\ hook_ret = s.hook_ret
  /\ main_pc = s.main_pc
  /\ evt = s.evt
  /\ i2s_active = s.i2s_active
  /\ dac = s.dac
  /\ pump = s.pump
  /\ pump_pc = s.pump_pc
  /\ qs = s.qs
  /\ bufferp = s.bufferp
  /\ buffern = s.buffern
  /\ rd = s.rd
  /\ dac_buffer = s.dac_buffer
  /\ dma_off = s.dma_off
  /\ iq_rd = s.iq_rd
  /\ n_playback_events = s.n_playback_events
  /\ faults = s.faults
  /\ wakeup_posted = s.wakeup_posted
  /\ woke_for = s.woke_for
  /\ underrun = s.underrun

\* The history variables before anything has happened.
InitHistory ==
  /\ reset_stop = FALSE
  /\ n_playback_changes = 0
  /\ fresh = FALSE
  /\ frame_fb = "none"
  /\ frame_rx = "none"
  /\ win_sum = Zero32
  /\ pub_sum = Zero32
  /\ n_published = 0
  /\ n_requests = 0
  /\ last_ctl = [fu |-> FALSE, row |-> FALSE, cur |-> FALSE,
                 channel_ok |-> FALSE]
  /\ vol_written = {<<0, 0>>}

Init == Is(InitState) /\ InitHistory

(***************************************************************************)
(* Kernel and driver services used by the program                          *)
(***************************************************************************)
\* chEvtBroadcastFlagsI(&audio.audio_events, flag): the flag is added to the
\* listener registered by main() and the thread's event bit is signalled.
chEvtBroadcastFlagsI(s, flag) ==
  [s EXCEPT !.listener_flags = @ \cup {flag},
            !.ev_pending = TRUE,
            !.n_playback_events =
               IF flag = AUDIO_EVENT_PLAYBACK THEN @ + 1 ELSE @]

\* usbPrepareQueuedReceive + usbStartReceiveI on the playback endpoint.
usbStartReceiveI(s, size) ==
  [s EXCEPT !.ep_rx = [armed |-> TRUE, size |-> size, got |-> FALSE]]

\* usbPrepareTransmit + usbStartTransmitI on the playback endpoint.
usbStartTransmitI(s, len) == [s EXCEPT !.ep_tx = [armed |-> TRUE, len |-> len]]

\* usbSetupTransfer(usbp, buf, n, cb); buf is "control_data" or "NULL".
usbSetupTransfer(s, buf, n, cb) ==
  [s EXCEPT !.ep0 = [@ EXCEPT !.staged = TRUE, !.buf = buf, !.len = n,
                               !.cb = cb]]


(***************************************************************************)
(* Sample clock monitor: TIM2 interrupt, start_sof_capture,                *)
(* stop_sof_capture                                                        *)
(***************************************************************************)
\* The amount the handler adds to sof_delta (lines 87-90).
SofDelta(last, value) ==
  IF Lt32(last, value)
  THEN Sub32(value, last)
  ELSE Add32(Sub32(UINT32_MAX, last), value)

\* f1014 = (sof_delta << 1) & 0xFFFFFF, as a number below 2^24: bit 23 and
\* up of sof_delta are shifted out by the mask.
F1014(delta) == (((delta.hi % 128) * W16) + delta.lo) * 2

\* The three bytes stored in sof_feedback_data (lines 96-98).
FeedbackBytes(f) == <<f % 256, (f \div 256) % 256, (f \div W16) % 256>>

\* OSAL_IRQ_HANDLER(STM32_TIM2_HANDLER) with TIM_SR_TIF set; value is TIM2->CNT.
TIM2_Handler(s, value) ==
  LET acc == Add32(s.sof_delta, SofDelta(s.sof_last_counter, value))
      t == IF s.sof_first
           THEN s
           ELSE IF s.sof_delta_count = SOF_LAST_WINDOW
                THEN [s EXCEPT !.sof_feedback_data = FeedbackBytes(F1014(acc)),
                               !.sof_delta = Zero32,
                               !.sof_delta_count = 0,
                               !.sof_feedback_valid = TRUE]
                ELSE [s EXCEPT !.sof_delta = acc,
                               !.sof_delta_count = @ + 1]
  IN [t EXCEPT !.sof_first = FALSE, !.sof_last_counter = value]

\* start_sof_capture, lines 119-120: rccResetTIM2 puts the TIM2 registers
\* back to their reset values, nvicEnableVector enables the vector.
start_sof_capture_reset(s) ==
  [s EXCEPT !.tim2 = [nvic |-> TRUE, cen |-> FALSE, tie |-> FALSE]]

\* start_sof_capture, lines 122-137: the locked part.
start_sof_capture_locked(s) ==
  [s EXCEPT !.sof_last_counter = Zero32,
            !.sof_delta = Zero32,
            !.sof_first = TRUE,
            !.sof_delta_count = 0,
            !.sof_feedback_valid = FALSE,
            !.tim2 = [@ EXCEPT !.cen = TRUE, !.tie = TRUE]]

\* stop_sof_capture
stop_sof_capture(s) ==
  [s EXCEPT !.tim2 = [@ EXCEPT !.nvic = FALSE, !.cen = FALSE],
            !.sof_feedback_valid = FALSE]

\* The TIM2 interrupt reaches the core when the vector and the trigger
\* interrupt are enabled.
Tim2IrqEnabled(s) == s.tim2.nvic /\ s.tim2.tie

(***************************************************************************)
(* Endpoint callbacks and the playback state                               *)
(***************************************************************************)
\* audio_feedback as it would be without the test of sof_feedback_valid.
audio_feedback_untested(s) ==
  IF s.playback THEN usbStartTransmitI(s, SOF_FEEDBACK_LEN) ELSE s

\* audio_feedback: the IN (feedback) slot of the frame is over.
audio_feedback(s) ==
  IF s.playback
  THEN usbStartTransmitI(s, IF s.sof_feedback_valid THEN SOF_FEEDBACK_LEN ELSE 0)
  ELSE s

\* audio_received: the OUT (data) slot of the frame is over.
audio_received(s) ==
  IF s.playback
  THEN usbStartReceiveI(s, AUDIO_MAX_PACKET_SIZE)
  ELSE s

\* start_playback
start_playback(s) ==
  IF ~s.playback
  THEN usbStartTransmitI(
         usbStartReceiveI(
           chEvtBroadcastFlagsI([s EXCEPT !.playback = TRUE],
                                AUDIO_EVENT_PLAYBACK),
           AUDIO_MAX_PACKET_SIZE),
         0)
  ELSE s

\* stop_playback as it would be without the test of audio.playback.
stop_playback_untested(s) ==
  chEvtBroadcastFlagsI([s EXCEPT !.playback = FALSE], AUDIO_EVENT_PLAYBACK)

\* stop_playback
stop_playback(s) ==
  IF s.playback
  THEN chEvtBroadcastFlagsI([s EXCEPT !.playback = FALSE], AUDIO_EVENT_PLAYBACK)
  ELSE s


(***************************************************************************)
(* Feature-unit control requests                                           *)
(***************************************************************************)
\* uint8_t -> bool and bool -> uint8_t
BoolOfByte(b) == b # 0
ByteOfBool(m) == IF m THEN 1 ELSE 0

\* The int16_t whose little-endian bytes are b0, b1, and its two bytes.
Int16OfBytes(b0, b1) ==
  LET u == b0 + (256 * b1) IN IF u >= 32768 THEN u - W16 ELSE u
LoByte(v) == ((v + W16) % W16) % 256
HiByte(v) == ((v + W16) % W16) \div 256

Fault(s, what) == [s EXCEPT !.faults = @ \cup {what}]

\* The members of audio_state_t from playback on, as the ARM EABI lays them
\* out: offset 0 playback, 1 sof_feedback_valid, 2..3 mute[0..1],
\* 4..5 volume[0], 6..7 volume[1].  An index outside mute[] or volume[]
\* lands on one of these bytes or outside the structure.
LoadAudioByte(s, off, unknown) ==
  CASE off = 0 -> ByteOfBool(s.playback)
    [] off = 1 -> ByteOfBool(s.sof_feedback_valid)
    [] off \in {2, 3} -> ByteOfBool(s.mute[off - 1])
    [] off \in {4, 6} -> LoByte(s.volume[(off \div 2) - 1])
    [] off \in {5, 7} -> HiByte(s.volume[(off \div 2) - 1])
    [] OTHER -> unknown

StoreAudioByte(s, off, b) ==
  CASE off = 0 -> [s EXCEPT !.playback = BoolOfByte(b)]
    [] off = 1 -> [s EXCEPT !.sof_feedback_valid = BoolOfByte(b)]
    [] off \in {2, 3} -> [s EXCEPT !.mute[off - 1] = BoolOfByte(b)]
    [] off \in {4, 6} ->
         [s EXCEPT !.volume[(off \div 2) - 1] = Int16OfBytes(b, HiByte(@))]
    [] off \in {5, 7} ->
         [s EXCEPT !.volume[(off \div 2) - 1] = Int16OfBytes(LoByte(@), b)]
    [] OTHER -> s

\* control_data[i] = b; a write past the end of control_data is recorded.
StoreControlByte(s, i, b) ==
  IF i < CONTROL_DATA_LEN
  THEN [s EXCEPT !.control_data[i + 1] = b]
  ELSE Fault(s, "control_data")

\* memcpy(control_data, bytes, Len(bytes))
RECURSIVE CopyToControl(_, _, _)
CopyToControl(s, bytes, i) ==
  IF i >= Len(bytes)
  THEN s
  ELSE CopyToControl(StoreControlByte(s, i, bytes[i + 1]), bytes, i + 1)

\* for (i = 0; i < length; i++) ((int16_t*)control_data)[i] = v
RECURSIVE FillInt16(_, _, _, _)
FillInt16(s, length, v, i) ==
  IF i >= length
  THEN s
  ELSE IF (2 * i) >= CONTROL_DATA_LEN
       THEN Fault(s, "control_data")
       ELSE FillInt16(StoreControlByte(StoreControlByte(s, 2 * i, LoByte(v)),
                                       (2 * i) + 1, HiByte(v)),
                      length, v, i + 1)

\* notify_volume
notify_volume(s) ==
  LET cd == s.control_data
      k == s.control_channel - 1
      t == IF s.control_channel = ALL_CHANNELS
           THEN [s EXCEPT !.volume = <<Int16OfBytes(cd[3], cd[4]),
                                       Int16OfBytes(cd[5], cd[6])>>]
           ELSE IF k \in {0, 1}
                THEN [s EXCEPT !.volume[k + 1] = Int16OfBytes(cd[1], cd[2])]
                ELSE Fault(StoreAudioByte(StoreAudioByte(s, 4 + (2 * k), cd[1]),
                                          5 + (2 * k), cd[2]),
                           "volume")
  IN chEvtBroadcastFlagsI(t, AUDIO_EVENT_VOLUME)

\* notify_mute with the all-channel payload read from its first two bytes
notify_mute_from_first_byte(s) ==
  LET cd == s.control_data
      k == s.control_channel - 1
      t == IF s.control_channel = ALL_CHANNELS
           THEN [s EXCEPT !.mute = <<BoolOfByte(cd[1]), BoolOfByte(cd[2])>>]
           ELSE IF k \in {0, 1}
                THEN [s EXCEPT !.mute[k + 1] = BoolOfByte(cd[1])]
                ELSE s
  IN chEvtBroadcastFlagsI(t, AUDIO_EVENT_MUTE)

\* notify_mute
notify_mute(s) ==
  LET cd == s.control_data
      k == s.control_channel - 1
      t == IF s.control_channel = ALL_CHANNELS
           THEN [s EXCEPT !.mute = <<BoolOfByte(cd[2]), BoolOfByte(cd[3])>>]
           ELSE IF k \in {0, 1}
                THEN [s EXCEPT !.mute[k + 1] = BoolOfByte(cd[1])]
                ELSE Fault(StoreAudioByte(s, 2 + k,
                                          ByteOfBool(BoolOfByte(cd[1]))),
                           "mute")
  IN chEvtBroadcastFlagsI(t, AUDIO_EVENT_MUTE)


\* return true / return false of the request handlers
Handled(s) == [s EXCEPT !.hook_ret = TRUE]
Unhandled(s) == [s EXCEPT !.hook_ret = FALSE]

\* audio_volume_control, case UAC_REQ_SET_CUR (falls through to default).
Case_SET_CUR(s, ctrl, channel, length) ==
  IF ctrl = UAC_FU_MUTE_CONTROL
  THEN Handled(usbSetupTransfer([s EXCEPT !.control_channel = channel],
                                "control_data", length, "notify_mute"))
  ELSE IF ctrl = UAC_FU_VOLUME_CONTROL
       THEN Handled(usbSetupTransfer([s EXCEPT !.control_channel = channel],
                                     "control_data", length, "notify_volume"))
       ELSE Unhandled(s)

\* case UAC_REQ_GET_CUR (falls through to UAC_REQ_SET_CUR); unknown is the
\* byte found when the channel index points outside audio.
Case_GET_CUR(s, ctrl, channel, length, unknown) ==
  LET k == channel - 1 IN
  IF ctrl = UAC_FU_MUTE_CONTROL
  THEN IF channel = ALL_CHANNELS
       THEN Handled(usbSetupTransfer(
              CopyToControl(s, <<0, ByteOfBool(s.mute[1]), ByteOfBool(s.mute[2])>>, 0),
              "control_data", length, "NULL"))
       ELSE IF k \in {0, 1}
            THEN Handled(usbSetupTransfer(
                   StoreControlByte(s, 0, ByteOfBool(s.mute[k + 1])),
                   "control_data", length, "NULL"))
            ELSE Handled(usbSetupTransfer(
                   Fault(StoreControlByte(s, 0, LoadAudioByte(s, 2 + k, unknown)),
                         "mute"),
                   "control_data", length, "NULL"))
  ELSE IF ctrl = UAC_FU_VOLUME_CONTROL
       THEN IF channel = ALL_CHANNELS
            THEN Handled(usbSetupTransfer(
                   CopyToControl(s, <<0, 0,
                                      LoByte(s.volume[1]), HiByte(s.volume[1]),
                                      LoByte(s.volume[2]), HiByte(s.volume[2])>>, 0),
                   "control_data", length, "NULL"))
            ELSE IF k \in {0, 1}
                 THEN Handled(usbSetupTransfer(
                        CopyToControl(s, <<LoByte(s.volume[k + 1]),
                                           HiByte(s.volume[k + 1])>>, 0),
                        "control_data", length, "NULL"))
                 ELSE Handled(usbSetupTransfer(
                        Fault(CopyToControl(s,
                                <<LoadAudioByte(s, 4 + (2 * k), unknown),
                                  LoadAudioByte(s, 5 + (2 * k), unknown)>>, 0),
                              "volume"),
                        "control_data", length, "NULL"))
       ELSE Case_SET_CUR(s, ctrl, channel, length)

\* case UAC_REQ_GET_RES (falls through to UAC_REQ_GET_CUR)
Case_GET_RES(s, ctrl, channel, length, unknown) ==
  IF ctrl = UAC_FU_VOLUME_CONTROL
  THEN Handled(usbSetupTransfer(FillInt16(s, length, 128, 0), "control_data", length, "NULL"))
  ELSE Case_GET_CUR(s, ctrl, channel, length, unknown)

\* case UAC_REQ_GET_MIN (falls through to UAC_REQ_GET_RES)
Case_GET_MIN(s, ctrl, channel, length, unknown) ==
  IF ctrl = UAC_FU_VOLUME_CONTROL
  THEN Handled(usbSetupTransfer(FillInt16(s, length, (-96) * 256, 0), "control_data", length, "NULL"))
  ELSE Case_GET_RES(s, ctrl, channel, length, unknown)

\* case UAC_REQ_GET_MAX (falls through to UAC_REQ_GET_MIN)
Case_GET_MAX(s, ctrl, channel, length, unknown) ==
  IF ctrl = UAC_FU_VOLUME_CONTROL
  THEN Handled(usbSetupTransfer(FillInt16(s, length, 0, 0), "control_data", length, "NULL"))
  ELSE Case_GET_MIN(s, ctrl, channel, length, unknown)

\* The same cases, with the staged data applied as a volume on completion.
Case_SET_MAX_applied(s, ctrl, channel, length, unknown) ==
  IF ctrl = UAC_FU_VOLUME_CONTROL
  THEN Handled(usbSetupTransfer([s EXCEPT !.control_channel = channel],
                                "control_data", length, "notify_volume"))
  ELSE Case_GET_MAX(s, ctrl, channel, length, unknown)

\* case UAC_REQ_SET_MAX, UAC_REQ_SET_MIN, UAC_REQ_SET_RES (fall through to
\* UAC_REQ_GET_MAX)
Case_SET_MAX(s, ctrl, channel, length, unknown) ==
  IF ctrl = UAC_FU_VOLUME_CONTROL
  THEN Handled(usbSetupTransfer(s, "control_data", length, "NULL"))
  ELSE Case_GET_MAX(s, ctrl, channel, length, unknown)

\* audio_volume_control: the switch on req.
audio_volume_control(s, req, ctrl, channel, length, unknown) ==
  CASE req \in {UAC_REQ_SET_MAX, UAC_REQ_SET_MIN, UAC_REQ_SET_RES} ->
         Case_SET_MAX(s, ctrl, channel, length, unknown)
    [] req = UAC_REQ_GET_MAX -> Case_GET_MAX(s, ctrl, channel, length, unknown)
    [] req = UAC_REQ_GET_MIN -> Case_GET_MIN(s, ctrl, channel, length, unknown)
    [] req = UAC_REQ_GET_RES -> Case_GET_RES(s, ctrl, channel, length, unknown)
    [] req = UAC_REQ_GET_CUR -> Case_GET_CUR(s, ctrl, channel, length, unknown)
    [] req = UAC_REQ_SET_CUR -> Case_SET_CUR(s, ctrl, channel, length)
    [] OTHER -> Unhandled(s)

\* audio_control
audio_control(s, iface, entity, req, wValue, length, unknown) ==
  IF iface = AUDIO_CONTROL_INTERFACE /\ entity = AUDIO_FUNCTION_UNIT_ID
  THEN audio_volume_control(s, req, (wValue \div 256) % 256, wValue % 256,
                            length, unknown)
  ELSE Unhandled(s)

\* audio_requests_hook; setup is the SETUP packet: [type, recipient,
\* bRequest, wValue, wIndex, wLength].
audio_requests_hook(s, setup, unknown) ==
  IF setup.type = "STD" /\ setup.recipient = "INTERFACE"
  THEN IF setup.bRequest = USB_REQ_SET_INTERFACE
          /\ setup.wIndex = AUDIO_STREAMING_INTERFACE
       THEN Handled(usbSetupTransfer(
              IF setup.wValue = 1 THEN start_playback(s) ELSE stop_playback(s),
              "NULL", 0, "NULL"))
       ELSE Unhandled(s)
  ELSE IF setup.type = "CLASS" /\ setup.recipient = "INTERFACE"
       THEN audio_control(s, setup.wIndex % 256, setup.wIndex \div 256,
                          setup.bRequest, setup.wValue, setup.wLength, unknown)
       ELSE Unhandled(s)

\* usb_event as it would be without the call of stop_playback.
usb_event_no_stop(s, event) == chEvtBroadcastFlagsI(s, AUDIO_EVENT_USB_STATE)

\* usb_event
usb_event(s, event) ==
  LET t == chEvtBroadcastFlagsI(s, AUDIO_EVENT_USB_STATE)
  IN IF event = "RESET" THEN stop_playback(t) ELSE t


(***************************************************************************)
(* main(): the event loop, one operator per step                           *)
(***************************************************************************)
Goto(s, pc) == [s EXCEPT !.main_pc = pc]

\* line 587: chEvtWaitOne(AUDIO_EVENT) returns when the event bit is pending
\* and clears it.
main_wait(s) == Goto([s EXCEPT !.ev_pending = FALSE], "get_flags")

\* line 588: evt = chEvtGetAndClearFlags(&listener)
main_get_flags(s) ==
  Goto([s EXCEPT !.evt = s.listener_flags, !.listener_flags = {}], "playback")

\* lines 605-606: the test of evt and the read of audio.playback
main_playback(s) ==
  IF AUDIO_EVENT_PLAYBACK \in s.evt
  THEN IF s.playback THEN Goto(s, "i2s_start") ELSE Goto(s, "dac_stop")
  ELSE Goto(s, "mute")

\* lines 608-609: i2sStart, i2sStartExchange
main_i2s_start(s) == Goto([s EXCEPT !.i2s_active = TRUE], "sof_reset")

\* line 610, first part of start_sof_capture
main_sof_reset(s) == Goto(start_sof_capture_reset(s), "sof_locked")

\* line 610, locked part of start_sof_capture
main_sof_locked(s) == Goto(start_sof_capture_locked(s), "dac_start")

\* line 611: audio_dac_start
main_dac_start(s) == Goto([s EXCEPT !.dac.on = TRUE], "mute")

\* line 613: audio_dac_stop
main_dac_stop(s) == Goto([s EXCEPT !.dac.on = FALSE], "sof_stop")

\* line 614: stop_sof_capture
main_sof_stop(s) == Goto(stop_sof_capture(s), "i2s_stop")

\* lines 615-616: i2sStopExchange, i2sStop
main_i2s_stop(s) == Goto([s EXCEPT !.i2s_active = FALSE], "mute")

\* lines 624-635: the test of evt; audio_dac_update_mute reads both mutes
audio_dac_update_mute(s) == [s EXCEPT !.dac.mute = s.mute]
main_mute(s) ==
  Goto(IF AUDIO_EVENT_MUTE \in s.evt THEN audio_dac_update_mute(s) ELSE s,
       "volume")

\* lines 640-642: audio_dac_update_volume reads both volumes
audio_dac_update_volume(s) == [s EXCEPT !.dac.volume = s.volume]
main_volume(s) ==
  Goto(IF AUDIO_EVENT_VOLUME \in s.evt THEN audio_dac_update_volume(s) ELSE s,
       "wait")


(***************************************************************************)
(* What the USB driver does around the callbacks                           *)
(***************************************************************************)
\* A bus reset aborts the armed transfers.
usb_reset(s) ==
  [s EXCEPT !.ep_rx = [@ EXCEPT !.armed = FALSE, !.got = FALSE],
            !.ep_tx = [@ EXCEPT !.armed = FALSE],
            !.ep0 = [@ EXCEPT !.staged = FALSE]]

\* What the driver did when usb_event is called with the event.
usb_state_change(s, event) == IF event = "RESET" THEN usb_reset(s) ELSE s

\* A data packet of n bytes is written to audio.audio_queue; a packet that
\* does not fit is dropped.
queue_write(s, n) ==
  [s EXCEPT !.iq_count = IF @ + n <= AUDIO_QUEUE_SIZE THEN @ + n ELSE @,
            !.ep_rx = [@ EXCEPT !.got = TRUE]]

(***************************************************************************)
(* Inputs                                                                  *)
(***************************************************************************)
UsbEvents == {"RESET", "ADDRESS", "CONFIGURED", "SUSPEND", "WAKEUP", "STALLED"}
AltSettings == {0, 1}
\* Sizes of the data packets the host sends in a frame.
PacketSizes == {AUDIO_PACKET_SIZE}
\* TIM2->CNT as read at a frame boundary while a stream is followed.
StreamCounterValues == {U32(0, 12288)}
\* TIM2->CNT as read at a frame boundary in the capture specification:
\* values on both sides of the wrap of the counter.
SofCounterValues == {U32(W16 - 1, W16 - 16), U32(0, 10), U32(0, 12288)}

SetInterfaceSetup(alt) ==
  [type |-> "STD", recipient |-> "INTERFACE", dir |-> "OUT",
   bRequest |-> USB_REQ_SET_INTERFACE,
   wValue |-> alt, wIndex |-> AUDIO_STREAMING_INTERFACE, wLength |-> 0]

(***************************************************************************)
(* Actions of the stream                                                   *)
(***************************************************************************)
\* The program goes to state t; the count of playback changes follows.
Step(t) ==
  /\ Commit(t)
  /\ n_playback_changes' =
       IF t.playback # playback THEN n_playback_changes + 1 ELSE n_playback_changes

SameFrame == UNCHANGED <<frame_fb, frame_rx>>
SameWindow == UNCHANGED <<win_sum, pub_sum, n_published>>
SameControl == UNCHANGED <<n_requests, last_ctl, vol_written>>

\* What the driver does with a SETUP packet before it calls the hook: a
\* transfer still staged on endpoint 0 is abandoned, the direction of the
\* data stage is taken from the packet.
usb_setup_received(s, setup) ==
  [s EXCEPT !.ep0 = [@ EXCEPT !.staged = FALSE, !.out = (setup.dir = "OUT")]]

\* SET_INTERFACE on the streaming interface reaches audio_requests_hook.
SetInterface(alt) ==
  LET setup == SetInterfaceSetup(alt)
      t == audio_requests_hook(usb_setup_received(State, setup), setup, 0)
  IN /\ t.n_playback_events <= MaxTransitions
     /\ Step(t)
     /\ reset_stop' = FALSE
     /\ fresh' = IF t.playback /\ ~playback THEN FALSE ELSE fresh
     /\ SameFrame /\ SameWindow /\ SameControl

\* A global USB event reaches usb_event.
UsbEvent(event) ==
  LET t == usb_event(usb_state_change(State, event), event)
  IN /\ t.n_playback_events <= MaxTransitions
     /\ Step(t)
     /\ reset_stop' = (event = "RESET" /\ playback)
     /\ UNCHANGED fresh
     /\ SameFrame /\ SameWindow /\ SameControl

\* The transfer armed on the IN direction is over: audio_feedback is called.
FeedbackSlot ==
  /\ ep_tx.armed
  /\ Step(audio_feedback([State EXCEPT !.ep_tx.armed = FALSE]))
  /\ UNCHANGED <<reset_stop, fresh>>
  /\ SameWindow /\ SameControl

\* The transfer armed on the OUT direction is over: audio_received is called.
ReceiveSlot ==
  /\ ep_rx.armed
  /\ Step(audio_received([State EXCEPT !.ep_rx = [@ EXCEPT !.armed = FALSE,
                                                          !.got = FALSE]]))
  /\ UNCHANGED <<reset_stop, fresh>>
  /\ SameWindow /\ SameControl

FeedbackComplete == FeedbackSlot /\ SameFrame
ReceiveComplete == ReceiveSlot /\ SameFrame

\* The data packet of the frame arrives.
DataReceived(n) ==
  /\ ep_rx.armed
  /\ ~ep_rx.got
  /\ n <= ep_rx.size
  /\ Step(queue_write(State, n))
  /\ UNCHANGED <<reset_stop, fresh>>
  /\ SameFrame /\ SameWindow /\ SameControl

\* A USB start of frame: TIM2 is triggered and interrupts when its
\* interrupt is enabled.
SofStep(value) ==
  LET irq == Tim2IrqEnabled(State)
      t == IF irq THEN TIM2_Handler(State, value) ELSE State
      publishes == irq /\ ~sof_first /\ sof_delta_count = SOF_LAST_WINDOW
  IN /\ Step(t)
     /\ fresh' = (fresh \/ publishes)
     /\ UNCHANGED reset_stop
     /\ SameControl

StartOfFrame(value) == SofStep(value) /\ SameFrame /\ SameWindow

\* A step of the main thread at position pc.
MainStep(pc, t) ==
  /\ main_pc = pc
  /\ Step(t)
  /\ UNCHANGED <<reset_stop, fresh>>
  /\ SameFrame /\ SameWindow /\ SameControl

MainWait == ev_pending /\ MainStep("wait", main_wait(State))
MainGetFlags == MainStep("get_flags", main_get_flags(State))
MainPlayback == MainStep("playback", main_playback(State))
MainI2sStart == MainStep("i2s_start", main_i2s_start(State))
MainSofReset == MainStep("sof_reset", main_sof_reset(State))
MainSofLocked == MainStep("sof_locked", main_sof_locked(State))
MainDacStart == MainStep("dac_start", main_dac_start(State))
MainDacStop == MainStep("dac_stop", main_dac_stop(State))
MainSofStop == MainStep("sof_stop", main_sof_stop(State))
MainI2sStop == MainStep("i2s_stop", main_i2s_stop(State))
MainMute == MainStep("mute", main_mute(State))
MainVolume == MainStep("volume", main_volume(State))

\* The stream: SET_INTERFACE, USB events, the two isochronous slots, the
\* frame clock and the main thread starting and stopping the hardware.
Next ==
  \/ \E alt \in AltSettings : SetInterface(alt)
  \/ \E event \in UsbEvents : UsbEvent(event)
  \/ FeedbackComplete
  \/ ReceiveComplete
  \/ \E value \in StreamCounterValues : StartOfFrame(value)
  \/ MainWait
  \/ MainGetFlags
  \/ MainPlayback
  \/ MainI2sStart
  \/ MainSofReset
  \/ MainSofLocked
  \/ MainDacStart
  \/ MainDacStop
  \/ MainSofStop
  \/ MainI2sStop
  \/ MainMute
  \/ MainVolume

Spec == Init /\ [][Next]_vars

(***************************************************************************)
(* The stream with the data packets of the host                            *)
(***************************************************************************)
NextData ==
  \/ \E alt \in AltSettings : SetInterface(alt)
  \/ FeedbackComplete
  \/ \E n \in PacketSizes : DataReceived(n)
  \/ ReceiveComplete
  \/ \E value \in StreamCounterValues : StartOfFrame(value)
  \/ MainWait
  \/ MainGetFlags
  \/ MainPlayback
  \/ MainI2sStart
  \/ MainSofReset
  \/ MainSofLocked
  \/ MainDacStart
  \/ MainDacStop
  \/ MainSofStop
  \/ MainI2sStop
  \/ MainMute
  \/ MainVolume

SpecData == Init /\ [][NextData]_vars

(***************************************************************************)
(* The USB interrupt alone, frame by frame: each slot handler runs at most *)
(* once between two starts of frame, and what it read in audio.playback is *)
(* kept until the next start of frame.  The main thread is not scheduled.  *)
(***************************************************************************)
Observed(b) == IF b THEN "true" ELSE "false"

FrameFeedback ==
  /\ frame_fb = "none"
  /\ FeedbackSlot
  /\ frame_fb' = Observed(playback)
  /\ UNCHANGED frame_rx

FrameReceive ==
  /\ frame_rx = "none"
  /\ ReceiveSlot
  /\ frame_rx' = Observed(playback)
  /\ UNCHANGED frame_fb

FrameStart(value) ==
  /\ SofStep(value)
  /\ frame_fb' = "none"
  /\ frame_rx' = "none"
  /\ SameWindow

NextFrame ==
  \/ \E alt \in AltSettings : SetInterface(alt)
  \/ \E event \in UsbEvents : UsbEvent(event)
  \/ FrameFeedback
  \/ \E n \in PacketSizes : DataReceived(n)
  \/ FrameReceive
  \/ \E value \in StreamCounterValues : FrameStart(value)

SpecFrame == Init /\ [][NextFrame]_vars

(***************************************************************************)
(* The capture alone: the TIM2 interrupt after start_sof_capture           *)
(***************************************************************************)
\* The state in which start_sof_capture returns to main() for the first
\* stream: SET_INTERFACE selected alternate setting 1 and the main thread
\* went through lines 587-610.
CaptureStarted ==
  main_sof_locked(main_sof_reset(main_i2s_start(main_playback(main_get_flags(
    main_wait(audio_requests_hook(
      usb_setup_received(InitState, SetInterfaceSetup(1)),
      SetInterfaceSetup(1), 0)))))))

InitSof ==
  /\ Is(CaptureStarted)
  /\ reset_stop = FALSE
  /\ n_playback_changes = 1
  /\ fresh = FALSE
  /\ frame_fb = "none"
  /\ frame_rx = "none"
  /\ win_sum = Zero32
  /\ pub_sum = Zero32
  /\ n_published = 0
  /\ n_requests = 0
  /\ last_ctl = [fu |-> FALSE, row |-> FALSE, cur |-> FALSE,
                 channel_ok |-> FALSE]
  /\ vol_written = {<<0, 0>>}

\* The sum of the window's forward distances (value - last) mod 2^32, kept
\* beside sof_delta.
WindowSum(value) ==
  IF sof_first THEN win_sum ELSE Add32(win_sum, Sub32(value, sof_last_counter))

\* A start of frame of the capture, with the window's true sum kept beside.
CaptureFrame(value) ==
  LET publishes == Tim2IrqEnabled(State) /\ ~sof_first
                   /\ sof_delta_count = SOF_LAST_WINDOW
  IN /\ n_published < MaxPublished
     /\ SofStep(value)
     /\ SameFrame
     /\ win_sum' = IF publishes THEN Zero32 ELSE WindowSum(value)
     /\ pub_sum' = IF publishes THEN WindowSum(value) ELSE pub_sum
     /\ n_published' = IF publishes THEN n_published + 1 ELSE n_published

NextSof == \E value \in SofCounterValues : CaptureFrame(value)

SpecSof == InitSof /\ [][NextSof]_vars

\* The number the three bytes of sof_feedback_data encode, little-endian.
DecodeFeedback(bytes) == bytes[1] + (256 * bytes[2]) + (W16 * bytes[3])

\* C1: every published feedback sample decodes to ((sum of the window's 32
\* forward distances (value - last) mod 2^32) << 1) & 0xFFFFFF, wherever the
\* counter wraps in the window.
C1_FeedbackIsWindowSum ==
  n_published > 0 => DecodeFeedback(sof_feedback_data) = F1014(pub_sum)

(***************************************************************************)
(* Class requests to the feature unit                                      *)
(***************************************************************************)
\* bRequest: the eight requests of audio.h and one the program does not know.
Requests ==
  {UAC_REQ_SET_CUR, UAC_REQ_SET_MIN, UAC_REQ_SET_MAX, UAC_REQ_SET_RES,
   UAC_REQ_GET_CUR, UAC_REQ_GET_MIN, UAC_REQ_GET_MAX, UAC_REQ_GET_RES, 133}
\* High byte of wValue: Mute, Volume and a control the unit does not have.
Controls == {UAC_FU_MUTE_CONTROL, UAC_FU_VOLUME_CONTROL, 3}
\* Low byte of wValue.
Channels == {0, 1, 2, 3, ALL_CHANNELS}
\* wLength
Lengths == {1, 2, 3, 6}
\* Bytes found outside audio when an index points there.
UnknownBytes == {0, 255}

\* The data stage of a request goes to the device when bit 7 of bRequest is 0.
Dir(req) == IF req >= 128 THEN "IN" ELSE "OUT"

ClassSetup(req, ctrl, channel, length, entity) ==
  [type |-> "CLASS", recipient |-> "INTERFACE", dir |-> Dir(req),
   bRequest |-> req, wValue |-> (256 * ctrl) + channel,
   wIndex |-> (256 * entity) + AUDIO_CONTROL_INTERFACE, wLength |-> length]

\* Requests to the feature unit, and one to another entity.
ClassSetups ==
  {ClassSetup(req, ctrl, channel, length, AUDIO_FUNCTION_UNIT_ID) :
     req \in Requests, ctrl \in Controls, channel \in Channels,
     length \in Lengths}
  \cup {ClassSetup(UAC_REQ_GET_CUR, UAC_FU_MUTE_CONTROL, 1, 1, 1)}

\* The rows of the control table: (request, control) pairs that are served.
TableRow(req, ctrl) ==
  \/ /\ req \in {UAC_REQ_SET_CUR, UAC_REQ_GET_CUR}
     /\ ctrl \in {UAC_FU_MUTE_CONTROL, UAC_FU_VOLUME_CONTROL}
  \/ /\ req \in {UAC_REQ_GET_MAX, UAC_REQ_GET_MIN, UAC_REQ_GET_RES,
                 UAC_REQ_SET_MAX, UAC_REQ_SET_MIN, UAC_REQ_SET_RES}
     /\ ctrl = UAC_FU_VOLUME_CONTROL

\* What a request asked for: it addresses the feature unit (fu), its
\* (request, control) pair is a row of the table (row), it is GET_CUR or
\* SET_CUR of Mute or Volume (cur), its channel selector is 1, 2 or 0xFF
\* (channel_ok).
Asked(setup) ==
  LET ctrl == (setup.wValue \div 256) % 256
      channel == setup.wValue % 256
  IN [fu |-> (setup.wIndex % 256 = AUDIO_CONTROL_INTERFACE
              /\ setup.wIndex \div 256 = AUDIO_FUNCTION_UNIT_ID),
      row |-> TableRow(setup.bRequest, ctrl),
      cur |-> (setup.bRequest \in {UAC_REQ_SET_CUR, UAC_REQ_GET_CUR}
               /\ ctrl \in {UAC_FU_MUTE_CONTROL, UAC_FU_VOLUME_CONTROL}),
      channel_ok |-> channel \in {1, 2, ALL_CHANNELS}]

\* The driver after the hook returned: a request the hook did not handle is
\* stalled, nothing stays staged.
usb_setup_done(s) ==
  IF s.hook_ret THEN s ELSE [s EXCEPT !.ep0.staged = FALSE]

\* A class request reaches audio_requests_hook.
ControlRequest(setup, unknown) ==
  /\ n_requests < MaxRequests
  /\ Step(usb_setup_done(
       audio_requests_hook(usb_setup_received(State, setup), setup, unknown)))
  /\ n_requests' = n_requests + 1
  /\ last_ctl' = Asked(setup)
  /\ UNCHANGED <<reset_stop, fresh, vol_written>>
  /\ SameFrame /\ SameWindow

\* The completion callback staged with the transfer.
ep0_callback(s) ==
  CASE s.ep0.cb = "notify_mute" -> notify_mute(s)
    [] s.ep0.cb = "notify_volume" -> notify_volume(s)
    [] OTHER -> s

\* The data stage of the staged transfer: bytes sent by the host are stored
\* in control_data and the callback runs; bytes sent to the host are read
\* from control_data.
usb_data_stage(s, bytes) ==
  IF s.ep0.out
  THEN ep0_callback(CopyToControl([s EXCEPT !.ep0.staged = FALSE], bytes, 0))
  ELSE [s EXCEPT !.ep0.staged = FALSE]

DataTransfer(bytes) ==
  /\ ep0.staged
  /\ ep0.buf = "control_data"
  /\ Len(bytes) = ep0.len
  /\ Step(usb_data_stage(State, bytes))
  /\ UNCHANGED <<reset_stop, fresh, n_requests, last_ctl>>
  /\ SameFrame /\ SameWindow

DataStage(bytes) == DataTransfer(bytes) /\ UNCHANGED vol_written

\* The same, with the pairs that whole volume transfers leave in
\* audio.volume collected in vol_written.
VolumeDataStage(bytes) ==
  /\ DataTransfer(bytes)
  /\ vol_written' = IF ep0.out /\ ep0.cb = "notify_volume"
                    THEN vol_written \cup {volume'}
                    ELSE vol_written

\* What the host sends in a data stage of n bytes: all bytes 0, all bytes
\* 0xFF, or the bytes 1, 2, .. n.
Payloads ==
  UNION {{[i \in 1..n |-> 0], [i \in 1..n |-> 255], [i \in 1..n |-> i]} :
           n \in Lengths}

\* Endpoint 0 alone: the requests and their data stages.
NextCtl ==
  \/ \E setup \in ClassSetups, unknown \in UnknownBytes :
       ControlRequest(setup, unknown)
  \/ \E bytes \in Payloads : DataStage(bytes)

SpecCtl == Init /\ [][NextCtl]_vars

\* Endpoint 0 and the main thread applying mute and volume to the DAC.
NextVol ==
  \/ \E setup \in ClassSetups, unknown \in UnknownBytes :
       ControlRequest(setup, unknown)
  \/ \E bytes \in Payloads : VolumeDataStage(bytes)
  \/ MainWait
  \/ MainGetFlags
  \/ MainPlayback
  \/ MainMute
  \/ MainVolume

SpecVol == Init /\ [][NextVol]_vars

(***************************************************************************)
(* Claims about the stream                                                 *)
(***************************************************************************)
\* C2: in a stream that was restarted (playback went true, false, true),
\* as long as no sample has been published since the restart, the
\* transmission armed on the feedback endpoint is of zero length.
C2_RestartSendsNoStaleSample ==
  (playback /\ n_playback_changes >= 3 /\ ~fresh /\ ep_tx.armed)
    => ep_tx.len = 0

\* C3: in every reachable state playback is true if and only if both
\* directions of the isochronous endpoint are armed and the I2S bus with its
\* DMA exchange is active.
C3_PlaybackIffArmedAndActive ==
  playback <=> (ep_rx.armed /\ ep_tx.armed /\ i2s_active)

\* C7: SET_INTERFACE with alternate setting 0 while playback is false leaves
\* playback, sof_feedback_valid, mute, volume and the arming of the endpoint
\* unchanged and broadcasts nothing; the number of playback-changed
\* notifications always equals the number of changes of playback.
C7_StopIsIdempotent ==
  /\ [][(SetInterface(0) /\ ~playback)
          => UNCHANGED <<playback, sof_feedback_valid, mute, volume, ep_rx,
                         ep_tx, listener_flags, ev_pending,
                         n_playback_events>>]_vars
  /\ [](n_playback_events = n_playback_changes)

\* SET_INTERFACE(0) was handled and playback has never been true.
C7_Witness ==
  /\ ~playback
  /\ n_playback_changes = 0
  /\ n_playback_events = 0
  /\ ep0.staged
  /\ hook_ret

\* C8: when usb_event(USB_EVENT_RESET) returns playback is false, and
\* AUDIO_EVENT_PLAYBACK was broadcast exactly when playback was true before.
C8_ResetForcesStopped ==
  [][UsbEvent("RESET")
       => /\ ~playback'
          /\ n_playback_events' =
               IF playback THEN n_playback_events + 1 ELSE n_playback_events
          /\ playback => AUDIO_EVENT_PLAYBACK \in listener_flags']_vars

\* A bus reset has just stopped a stream.
C8_Witness ==
  /\ reset_stop
  /\ ~playback
  /\ AUDIO_EVENT_PLAYBACK \in listener_flags

\* What a slot handler of the IN direction leaves alone.
ExceptTx ==
  UNCHANGED <<playback, sof_feedback_valid, mute, volume, listener_flags,
              ev_pending, iq_count, sof_last_counter, sof_delta, sof_first,
              sof_delta_count, sof_feedback_data, tim2, ep_rx, control_data,
              control_channel, ep0, hook_ret, main_pc, evt, i2s_active, dac,
              n_playback_events, faults>>

\* What a slot handler of the OUT direction leaves alone.
ExceptRx ==
  UNCHANGED <<playback, sof_feedback_valid, mute, volume, listener_flags,
              ev_pending, iq_count, sof_last_counter, sof_delta, sof_first,
              sof_delta_count, sof_feedback_data, tim2, ep_tx, control_data,
              control_channel, ep0, hook_ret, main_pc, evt, i2s_active, dac,
              n_playback_events, faults>>

\* C9: with playback false the slot handlers arm nothing and change
\* nothing; with playback true audio_feedback arms one transmission, of 3
\* bytes if sof_feedback_valid and of 0 bytes otherwise, and audio_received
\* arms one receive of at most AUDIO_PACKET_SIZE + 4 bytes and takes no byte
\* out of the queue.
C9_SlotHandlers ==
  [][/\ FeedbackComplete
          => /\ ExceptTx
             /\ IF playback
                THEN ep_tx' = [armed |-> TRUE,
                               len |-> IF sof_feedback_valid THEN 3 ELSE 0]
                ELSE ep_tx' = [ep_tx EXCEPT !.armed = FALSE]
     /\ ReceiveComplete
          => /\ ExceptRx
             /\ IF playback
                THEN /\ ep_rx'.armed
                     /\ ep_rx'.size <= AUDIO_PACKET_SIZE + 4
                     /\ iq_count' = iq_count
                ELSE /\ ~ep_rx'.armed
                     /\ ep_rx'.size = ep_rx.size]_vars

\* In the first stream two packets are in the queue, audio_received has
\* armed the receive of a third and audio_feedback the transmission of a
\* sample.
C9_Witness ==
  /\ playback
  /\ n_playback_changes = 1
  /\ sof_feedback_valid
  /\ ep_tx.armed
  /\ ep_tx.len = SOF_FEEDBACK_LEN
  /\ ep_rx.armed
  /\ ~ep_rx.got
  /\ iq_count = 2 * AUDIO_PACKET_SIZE

\* C10: within one frame audio_feedback and audio_received read the same
\* value of audio.playback.
C10_SamePlaybackInFrame ==
  (frame_fb # "none" /\ frame_rx # "none") => frame_fb = frame_rx

(***************************************************************************)
(* Claims about the class requests                                         *)
(***************************************************************************)
\* C4: the pair of volumes the main thread read last while handling
\* AUDIO_EVENT_VOLUME is the pair some whole volume transfer left in
\* audio.volume, or the initial pair.
C4_VolumePairNotTorn == dac.volume \in vol_written

\* C5: a request to the feature unit whose (request, control) pair is not a
\* row of the control table returns false and stages no transfer.
C5_UnsupportedRejected ==
  (n_requests > 0 /\ last_ctl.fu /\ ~last_ctl.row)
    => (~hook_ret /\ ~ep0.staged)

\* C6: a GET_CUR or SET_CUR of Mute or Volume whose channel selector is not
\* 1, 2 or 0xFF returns false and stages no transfer, and no element outside
\* mute[0..1] and volume[0..1] is ever read or written.
C6_BadChannelRejected ==
  /\ (n_requests > 0 /\ last_ctl.fu /\ last_ctl.cur /\ ~last_ctl.channel_ok)
       => (~hook_ret /\ ~ep0.staged)
  /\ faults \cap {"mute", "volume"} = {}

(***************************************************************************)
(* Claims about the feature unit                                           *)
(***************************************************************************)
\* wLength of the requests a host sends for one or both channels of Mute.
UnitLengths == {1, 2, 3}

\* The requests a host sends to the feature unit for the channels it has:
\* every request code for Mute and Volume, channel 1, 2 or all channels.
UnitSetups ==
  {ClassSetup(req, ctrl, channel, length, AUDIO_FUNCTION_UNIT_ID) :
     req \in Requests,
     ctrl \in {UAC_FU_MUTE_CONTROL, UAC_FU_VOLUME_CONTROL},
     channel \in {1, 2, ALL_CHANNELS},
     length \in UnitLengths}

\* The data stages of Payloads, and one whose three bytes differ: reserved
\* byte 2, first channel muted, second channel not muted.
UnitPayloads == Payloads \cup {<<2, 1, 0>>}

\* Endpoint 0 with these requests and their data stages.
NextUnit ==
  \/ \E setup \in UnitSetups : ControlRequest(setup, 0)
  \/ \E bytes \in UnitPayloads : DataStage(bytes)

SpecUnit == Init /\ [][NextUnit]_vars

\* C11, as stated: the completion of an all-channel SET_CUR Mute whose
\* payload is [reserved, m0, m1] leaves the bytes m0, m1 in audio.mute, for
\* every pair of bytes, so that GET_CUR reports them back.
C11_MuteBytesRoundTrip ==
  [][\A bytes \in UnitPayloads :
       (/\ Len(bytes) = 3
        /\ ep0.out
        /\ ep0.cb = "notify_mute"
        /\ control_channel = ALL_CHANNELS
        /\ DataStage(bytes))
         => <<ByteOfBool(mute'[1]), ByteOfBool(mute'[2])>>
              = <<bytes[2], bytes[3]>>]_vars

\* C11: the completion of an all-channel SET_CUR Mute whose payload is
\* [reserved, m0, m1] leaves mute = [m0 # 0, m1 # 0]; an all-channel GET_CUR
\* Mute of three bytes stages exactly [0, b0, b1], where b is 1 for a muted
\* channel and 0 otherwise, and changes no mute; the completion of a SET_CUR
\* Mute on channel 1 or 2 sets that channel's mute from the first payload
\* byte and changes no other mute, no volume and no stream flag.
C11_MuteRoundTrip ==
  /\ [][\A bytes \in UnitPayloads :
          (/\ Len(bytes) = 3
           /\ ep0.out
           /\ ep0.cb = "notify_mute"
           /\ control_channel = ALL_CHANNELS
           /\ DataStage(bytes))
            => mute' = <<bytes[2] # 0, bytes[3] # 0>>]_vars
  /\ [][ControlRequest(ClassSetup(UAC_REQ_GET_CUR, UAC_FU_MUTE_CONTROL,
                                  ALL_CHANNELS, 3, AUDIO_FUNCTION_UNIT_ID), 0)
          => /\ hook_ret'
             /\ ep0'.staged
             /\ ~ep0'.out
             /\ ep0'.buf = "control_data"
             /\ ep0'.len = 3
             /\ <<control_data'[1], control_data'[2], control_data'[3]>>
                  = <<0, ByteOfBool(mute[1]), ByteOfBool(mute[2])>>
             /\ mute' = mute]_vars
  /\ [][\A bytes \in UnitPayloads : \A c \in {1, 2} :
          (/\ ep0.out
           /\ ep0.cb = "notify_mute"
           /\ control_channel = c
           /\ DataStage(bytes))
            => /\ mute' = [mute EXCEPT ![c] = (bytes[1] # 0)]
               /\ UNCHANGED <<volume, playback, sof_feedback_valid>>]_vars

\* An all-channel SET_CUR Mute with payload [2, 1, 0] completed and the
\* all-channel GET_CUR Mute after it staged the report [0, 1, 0].
C11_Witness ==
  /\ n_requests = 2
  /\ mute = <<TRUE, FALSE>>
  /\ AUDIO_EVENT_MUTE \in listener_flags
  /\ ep0.staged
  /\ ~ep0.out
  /\ ep0.len = 3
  /\ <<control_data[1], control_data[2], control_data[3]>> = <<0, 1, 0>>

\* C12: a GET_MIN, GET_MAX or GET_RES on Volume of any requested length is
\* handled and stages that length; every 16-bit little-endian value of the
\* response is -24576 for GET_MIN, 0 for GET_MAX and 128 for GET_RES (for
\* length 2 the response is the encoding of that one value); the handler
\* writes length / 2 16-bit values, that is, it writes no byte of
\* control_data after them and none outside control_data.
C12_RangeResponse ==
  [][\A req \in {UAC_REQ_GET_MIN, UAC_REQ_GET_MAX, UAC_REQ_GET_RES} :
     \A channel \in Channels : \A length \in Lengths :
       ControlRequest(ClassSetup(req, UAC_FU_VOLUME_CONTROL, channel, length,
                                 AUDIO_FUNCTION_UNIT_ID), 0)
         => LET v == CASE req = UAC_REQ_GET_MIN -> -24576
                       [] req = UAC_REQ_GET_MAX -> 0
                       [] req = UAC_REQ_GET_RES -> 128
                n == length \div 2
            IN /\ hook_ret'
               /\ ep0'.staged
               /\ ep0'.len = length
               /\ \A i \in 1..n :
                    Int16OfBytes(control_data'[(2 * i) - 1],
                                 control_data'[2 * i]) = v
               /\ \A j \in ((2 * n) + 1)..CONTROL_DATA_LEN :
                    control_data'[j] = control_data[j]
               /\ faults' = faults]_vars

\* C14: the feature unit changes mute[], volume[] and playback and
\* broadcasts only when the data stage of a SET_CUR completes.  No setup
\* stage changes them or broadcasts; a completion callback is staged only by
\* a SET_CUR of Mute or Volume, so the data stage of every GET_* and of
\* SET_MAX, SET_MIN, SET_RES changes none of them and broadcasts nothing;
\* the completion of a SET_CUR broadcasts its one notification (mute-changed
\* for Mute, volume-changed for Volume) and no other.
C14_MutationOnlyOnCompletion ==
  /\ [](ep0.staged /\ ep0.cb # "NULL" => ep0.out /\ last_ctl.fu /\ last_ctl.cur)
  /\ [][n_requests' # n_requests
          => UNCHANGED <<mute, volume, playback, listener_flags,
                         ev_pending>>]_vars
  /\ [][(n_requests' = n_requests /\ ~(ep0.out /\ ep0.cb # "NULL"))
          => UNCHANGED <<mute, volume, playback, listener_flags,
                         ev_pending>>]_vars
  /\ [][(n_requests' = n_requests /\ ep0.out /\ ep0.cb = "notify_mute"
           /\ ~ep0'.staged)
          => /\ listener_flags' = listener_flags \cup {AUDIO_EVENT_MUTE}
             /\ ev_pending'
             /\ UNCHANGED playback]_vars
  /\ [][(n_requests' = n_requests /\ ep0.out /\ ep0.cb = "notify_volume"
           /\ ~ep0'.staged)
          => /\ listener_flags' = listener_flags \cup {AUDIO_EVENT_VOLUME}
             /\ ev_pending'
             /\ UNCHANGED <<playback, mute>>]_vars

\* A SET_CUR Volume completed and changed a volume; the request after it,
\* one that is not a SET_CUR or GET_CUR, is staged.
C14_Witness ==
  /\ volume # <<0, 0>>
  /\ listener_flags = {AUDIO_EVENT_VOLUME}
  /\ n_requests = 2
  /\ ep0.staged
  /\ ~last_ctl.cur

\* C19: no byte is written or read outside the eight bytes of control_data
\* by a request handler or a completion callback, and a transfer staged on
\* control_data is of at most eight bytes.
C19_ControlDataInBounds ==
  /\ "control_data" \notin faults
  /\ (ep0.staged /\ ep0.buf = "control_data") => ep0.len <= CONTROL_DATA_LEN

(***************************************************************************)
(* Claims about the capture and the pump                                   *)
(***************************************************************************)
\* C15: every capture but the first of a window adds to sof_delta the
\* forward distance from the previous reading to this one modulo 2^32:
\* value - last when value >= last (0 when the counter did not advance), the
\* wrapped distance when value < last (26 from 0xFFFFFFF0 to 0x0000000A).
C15_ForwardDistance ==
  [][\A value \in SofCounterValues :
       (/\ Tim2IrqEnabled(State)
        /\ ~sof_first
        /\ sof_delta_count # SOF_LAST_WINDOW
        /\ CaptureFrame(value))
         => sof_delta' = Add32(sof_delta, Sub32(value, sof_last_counter))]_vars

(***************************************************************************)
(* Claims about the arming of the isochronous endpoint                     *)
(***************************************************************************)
\* C20: when start_playback arms the two directions of the isochronous
\* endpoint (SET_INTERFACE with alternate setting 1 while playback is
\* false), no transfer armed earlier is outstanding on either direction;
\* audio_received and audio_feedback arm a direction only from the
\* completion of its transfer.
C20_ArmsIdleDirection ==
  [][(SetInterface(1) /\ ~playback) => (~ep_rx.armed /\ ~ep_tx.armed)]_vars

(***************************************************************************)
(* The pump: i2s_callback, Thread1, the queue and the double buffer        *)
(***************************************************************************)
\* Packets queued in one behaviour of the pump specification.
MaxPackets == 5

\* Samples in one half of dac_buffer: the I2S driver calls the callback with
\* n = size / 2 and offset 0 or size / 2 (i2scfg, size AUDIO_BUFFER_SIZE).
I2S_HALF == AUDIO_BUFFER_SIZE \div 2

\* The half of dac_buffer, 1 or 2, that starts at sample offset off.
HalfAt(off) == (off \div I2S_HALF) + 1

\* chThdSuspendS(&audio.pump): the thread is parked in the reference.
chThdSuspendS(s) == [s EXCEPT !.pump = "Thread1", !.pump_pc = "suspended"]

\* chThdResumeI(&audio.pump, MSG_OK): the thread parked in the reference, if
\* there is one, is made ready and the reference is cleared.
chThdResumeI(s) ==
  IF s.pump = "NULL"
  THEN s
  ELSE [s EXCEPT !.pump = "NULL", !.pump_pc = "ready"]

\* chIQReadTimeout(&audio.audio_queue, bp, n, TIME_IMMEDIATE): the oldest
\* bytes of the queue, n of them or as many as it holds, go to bp.
chIQReadTimeout(s, bp, n) ==
  LET k == IF n <= s.iq_count THEN n ELSE s.iq_count
  IN IF k = 0
     THEN s
     ELSE [s EXCEPT !.dac_buffer[HalfAt(bp)] = [from |-> s.iq_rd, len |-> k],
                    !.iq_rd = @ + k,
                    !.iq_count = @ - k]

\* i2s_callback(i2sp, off, n)
i2s_callback(s, off, n) ==
  chThdResumeI([s EXCEPT !.bufferp = off, !.buffern = n * 2])

\* Thread1, lines 493-494: chSysLock, chThdSuspendS
Thread1_suspend(s) == chThdSuspendS(s)

\* Thread1, lines 495-496: resumed, qs = chIQGetFullI, chSysUnlock
Thread1_wake(s) == [s EXCEPT !.qs = s.iq_count, !.pump_pc = "compare"]

\* Thread1 without the comparison of line 498: the read is always called.
Thread1_compare_untested(s) == [s EXCEPT !.pump_pc = "call"]

\* Thread1 with the comparison of line 498 made strict.
Thread1_compare_strict(s) ==
  [s EXCEPT !.pump_pc = IF s.qs > s.buffern THEN "call" ELSE "lock"]

\* Thread1, line 498: if (qs >= buffern)
Thread1_compare(s) ==
  [s EXCEPT !.pump_pc = IF s.qs >= s.buffern THEN "call" ELSE "lock"]

\* Thread1, lines 500-501: the arguments of chIQReadTimeout are read
Thread1_call(s) ==
  [s EXCEPT !.rd = [bp |-> s.bufferp, n |-> s.buffern], !.pump_pc = "read"]

\* Thread1, lines 500-501: chIQReadTimeout returns
Thread1_read(s) ==
  [chIQReadTimeout(s, s.rd.bp, s.rd.n) EXCEPT !.pump_pc = "lock"]

\* The state in which main() waits for the next event after it started the
\* first stream (lines 587-642).
StreamStarted == main_volume(main_mute(main_dac_start(CaptureStarted)))

InitPump ==
  /\ Is(StreamStarted)
  /\ reset_stop = FALSE
  /\ n_playback_changes = 1
  /\ fresh = FALSE
  /\ frame_fb = "none"
  /\ frame_rx = "none"
  /\ win_sum = Zero32
  /\ pub_sum = Zero32
  /\ n_published = 0
  /\ n_requests = 0
  /\ last_ctl = [fu |-> FALSE, row |-> FALSE, cur |-> FALSE,
                 channel_ok |-> FALSE]
  /\ vol_written = {<<0, 0>>}

\* A step of the pump specification: the program goes to state t.
PumpStep(t) ==
  /\ Step(t)
  /\ UNCHANGED <<reset_stop, fresh>>
  /\ SameFrame /\ SameWindow /\ SameControl

\* DMA has transmitted the half at dma_off and goes on with the other one:
\* the I2S driver calls i2s_callback for the half it has left.
I2sHalf ==
  /\ i2s_active
  /\ PumpStep([i2s_callback(State, dma_off, I2S_HALF) EXCEPT
                 !.dma_off = I2S_HALF - dma_off,
                 !.wakeup_posted = TRUE,
                 !.woke_for = IF pump = "NULL" THEN @ ELSE dma_off])

PumpSuspend ==
  /\ pump_pc = "lock"
  /\ PumpStep(Thread1_suspend(State))

PumpWake ==
  /\ pump_pc = "ready"
  /\ PumpStep([Thread1_wake(State) EXCEPT !.wakeup_posted = FALSE])

PumpCompare ==
  /\ pump_pc = "compare"
  /\ LET t == Thread1_compare(State)
     IN PumpStep([t EXCEPT !.underrun =
                    IF t.pump_pc = "lock" THEN "skipped" ELSE @])

PumpCall ==
  /\ pump_pc = "call"
  /\ PumpStep(Thread1_call(State))

PumpRead ==
  /\ pump_pc = "read"
  /\ PumpStep([Thread1_read(State) EXCEPT !.underrun = "no"])

\* The data packet of the frame arrives while the pump runs.
StreamPacket(n) ==
  LET t == queue_write(State, n)
  IN /\ iq_rd + iq_count < MaxPackets * AUDIO_PACKET_SIZE
     /\ ep_rx.armed
     /\ ~ep_rx.got
     /\ n <= ep_rx.size
     /\ PumpStep([t EXCEPT !.underrun =
                    IF /\ @ = "skipped"
                       /\ n >= AUDIO_PACKET_SIZE
                       /\ t.iq_count = iq_count + n
                       /\ pump_pc \in {"lock", "suspended", "ready"}
                    THEN "fed"
                    ELSE @])

\* Sizes of the packets of a stream: nominal, and nominal plus the slack.
StreamPacketSizes == {AUDIO_PACKET_SIZE, AUDIO_MAX_PACKET_SIZE}

\* A running stream: the host sends, DMA transmits, the pump copies.
NextPump ==
  \/ \E n \in StreamPacketSizes : StreamPacket(n)
  \/ ReceiveComplete
  \/ I2sHalf
  \/ PumpSuspend
  \/ PumpWake
  \/ PumpCompare
  \/ PumpCall
  \/ PumpRead

SpecPump == InitPump /\ [][NextPump]_vars

\* C13: a pass of the pump that wakes with fewer bytes queued than one half
\* of dac_buffer holds copies nothing: it returns to its suspend point and
\* leaves the queue and dac_buffer unchanged.  When a nominal packet has
\* been queued after such a pass and before the pump woke again, the next
\* pass goes on to the copy, and the queue then holds the bytes of a whole
\* half, so at most one half-period is skipped.
C13_UnderrunBounded ==
  /\ [][(pump_pc = "compare" /\ pump_pc' # "compare" /\ qs < 2 * I2S_HALF)
          => /\ pump_pc' = "lock"
             /\ UNCHANGED <<iq_count, iq_rd, dac_buffer>>]_vars
  /\ [][(pump_pc = "compare" /\ pump_pc' # "compare" /\ underrun = "fed")
          => pump_pc' = "call"]_vars
  /\ [](pump_pc \in {"call", "read"} => iq_count >= 2 * I2S_HALF)
  /\ [][(pump_pc = "read" /\ pump_pc' # "read")
          => /\ iq_rd' = iq_rd + (2 * I2S_HALF)
             /\ dac_buffer' # dac_buffer]_vars

\* The pump skipped a pass, a nominal packet was queued before it woke
\* again, and it is now in the copy of the next pass.
C13_Witness ==
  /\ pump_pc = "read"
  /\ underrun = "fed"

\* C16: the pump is never parked in chThdSuspendS while an i2s_callback has
\* run for which no pass of the pump loop began: every wakeup is served,
\* also one posted while the pump was not yet parked.
C16_WakeupNeverLost == pump_pc = "suspended" => ~wakeup_posted

\* C17: while the pump is in the copy of a pass, the destination of the copy
\* is the half whose completion resumed the pump for that pass, and it is
\* not the half DMA is transmitting.
C17_WritesIdleHalf ==
  pump_pc = "read" => (rd.bp = woke_for /\ rd.bp # dma_off)

C21_StartStopAlternate ==
  /\ [][(main_pc = "playback" /\ main_pc' = "i2s_start")
          => (~i2s_active /\ ~dac.on)]_vars
  /\ [][(main_pc = "playback" /\ main_pc' = "dac_stop")
          => (i2s_active /\ dac.on)]_vars
  /\ []((main_pc = "wait" /\ ~ev_pending /\ listener_flags = {})
          => ((i2s_active /\ dac.on) <=> playback))

====
